---- MODULE Spec2Model ----
(***************************************************************************)
(* Model of go-smtpd (smtpd.go): the accept loop of Server.Serve, the      *)
(* per-connection session.serve loop with its handlers, and the cmdLine /  *)
(* addrString parsing helpers.  Text is modelled as sequences of           *)
(* one-character strings so that the parsing code is computed, not assumed.*)
(***************************************************************************)
EXTENDS Integers, Sequences, FiniteSets, TLC

VARIABLES srv, peer, listening, crashed, sess

vars == <<srv, peer, listening, crashed, sess>>

----------------------------------------------------------------------------
(* Bounds of the exploration.                                              *)

\* lines one client sends on a connection in the general specification
MaxLines == 3
\* lines of the end-to-end scenario (EHLO, MAIL, RCPT, QUIT)
ScenarioLines == 4
\* connections accepted, and lines per connection, in the concurrent one
NumSessions == 2
ConcLines == 2
\* lines per connection when the parsing of command lines is exercised
ParseLines == 2

----------------------------------------------------------------------------
(* Characters and strings (package strings / unicode).                     *)

CR == "\r"
LF == "\n"
CRLF == <<CR, LF>>

LowerChars == <<"a","b","c","d","e","f","g","h","i","j","k","l","m",
                "n","o","p","q","r","s","t","u","v","w","x","y","z">>
UpperChars == <<"A","B","C","D","E","F","G","H","I","J","K","L","M",
                "N","O","P","Q","R","S","T","U","V","W","X","Y","Z">>

ToUpperChar(c) ==
    IF \E i \in 1..26 : LowerChars[i] = c
    THEN UpperChars[CHOOSE i \in 1..26 : LowerChars[i] = c]
    ELSE c

ToLowerChar(c) ==
    IF \E i \in 1..26 : UpperChars[i] = c
    THEN LowerChars[CHOOSE i \in 1..26 : UpperChars[i] = c]
    ELSE c

ToUpper(s) == [i \in 1..Len(s) |-> ToUpperChar(s[i])]

ToLower(s) == [i \in 1..Len(s) |-> ToLowerChar(s[i])]

\* unicode.IsSpace restricted to the characters that occur in the lines
IsSpace(c) == c \in {" ", "\t", CR, LF, "\f"}

\* strings.Index for a one-character needle: 1-based position, 0 for Go's -1
Index(s, c) ==
    IF \E i \in 1..Len(s) : s[i] = c
    THEN CHOOSE i \in 1..Len(s) : s[i] = c /\ \A j \in 1..(i-1) : s[j] # c
    ELSE 0

HasSuffix(s, suf) ==
    /\ Len(s) >= Len(suf)
    /\ SubSeq(s, Len(s) - Len(suf) + 1, Len(s)) = suf

\* strings.TrimRightFunc(s, unicode.IsSpace)
TrimRightSpace(s) ==
    LET keep == {i \in 1..Len(s) : ~IsSpace(s[i])}
    IN  IF keep = {} THEN <<>>
        ELSE SubSeq(s, 1, CHOOSE i \in keep : \A j \in keep : j <= i)

----------------------------------------------------------------------------
(* cmdLine                                                                 *)

\* Go's s[:len(s)-2] is only evaluated on lines of length >= 2 here
\* Arg that keeps trailing whitespace
Arg_noTrim(cl) ==
    LET idx == Index(cl, " ")
    IN  IF idx # 0 THEN SubSeq(cl, idx + 1, Len(cl) - 2) ELSE <<>>

Verb(cl) ==
    LET idx == Index(cl, " ")
    IN  IF idx # 0 THEN ToUpper(SubSeq(cl, 1, idx - 1))
        ELSE ToUpper(SubSeq(cl, 1, Len(cl) - 2))

Arg(cl) ==
    LET idx == Index(cl, " ")
    IN  IF idx # 0 THEN TrimRightSpace(SubSeq(cl, idx + 1, Len(cl) - 2))
        ELSE <<>>

ErrNoCRLF == "line doesn't end in \\r\\n"
ErrUnexpectedArg == "unexpected argument"
NoError == "nil"

V_HELO == <<"H","E","L","O">>
V_EHLO == <<"E","H","L","O">>
V_QUIT == <<"Q","U","I","T">>
V_RSET == <<"R","S","E","T">>
V_NOOP == <<"N","O","O","P">>
V_MAIL == <<"M","A","I","L">>
V_RCPT == <<"R","C","P","T">>
V_DATA == <<"D","A","T","A">>

\* checkValid without the no-argument rule
checkValid_noArgRule(cl) ==
    IF ~HasSuffix(cl, CRLF) THEN ErrNoCRLF ELSE NoError

checkValid(cl) ==
    IF ~HasSuffix(cl, CRLF) THEN ErrNoCRLF
    ELSE IF Verb(cl) \in {V_RSET, V_DATA, V_QUIT} /\ Arg(cl) # <<>>
         THEN ErrUnexpectedArg
         ELSE NoError

----------------------------------------------------------------------------
(* addrString                                                              *)

Email(a) == a

Hostname(a) ==
    LET idx == Index(a, "@")
    IN  IF idx # 0 THEN ToLower(SubSeq(a, idx + 1, Len(a))) ELSE <<>>

----------------------------------------------------------------------------
(* rcptToRE / mailFromRE.  Both have the shape                             *)
(*   (?i)^KEYWORD:\s*<(BODY)>   with a lazy BODY (.+? or .*?),             *)
(* so the submatch ends at the first '>' that leaves BODY long enough.     *)

NoMatch == [matched |-> FALSE, sub |-> <<>>]

\* \s of the regexp package
IsReSpace(c) == c \in {" ", "\t", CR, LF, "\f"}

FindAddr(arg, keyword, minBody) ==
    LET k == Len(keyword)
        rest == {i \in (k+1)..Len(arg) : ~IsReSpace(arg[i])}
    IN  IF Len(arg) < k \/ ToUpper(SubSeq(arg, 1, k)) # keyword \/ rest = {}
        THEN NoMatch
        ELSE LET lt == CHOOSE i \in rest : \A j \in rest : i <= j
                 ends == {e \in (lt + 1 + minBody)..Len(arg) :
                             /\ arg[e] = ">"
                             /\ \A j \in (lt+1)..(e-1) : arg[j] # LF}
             IN  IF arg[lt] # "<" \/ ends = {} THEN NoMatch
                 ELSE LET gt == CHOOSE e \in ends : \A f \in ends : e <= f
                      IN  [matched |-> TRUE, sub |-> SubSeq(arg, lt + 1, gt - 1)]

rcptToRE(arg) == FindAddr(arg, <<"T","O",":">>, 1)

mailFromRE(arg) == FindAddr(arg, <<"F","R","O","M",":">>, 0)

----------------------------------------------------------------------------
(* Lines a client may put on the wire.                                     *)

Chars_ab == <<"a","@","b",".","c","o","m">>
Chars_cd == <<"c","@","d",".","c","o","m">>
Chars_xy == <<"x","@","y",".","c","o","m">>
Chars_client == <<"c","l","i","e","n","t",".","e","x","a","m","p","l","e">>

L_EhloClient == V_EHLO \o <<" ">> \o Chars_client \o CRLF
L_EhloH == V_EHLO \o <<" ", "h">> \o CRLF
L_HeloH == V_HELO \o <<" ", "h">> \o CRLF
L_MailAB == V_MAIL \o <<" ","F","R","O","M",":","<">> \o Chars_ab \o <<">">> \o CRLF
L_MailNoBrackets == V_MAIL \o <<" ","F","R","O","M",":">> \o Chars_ab \o CRLF
L_RcptCD == V_RCPT \o <<" ","T","O",":","<">> \o Chars_cd \o <<">">> \o CRLF
L_RcptXY == V_RCPT \o <<" ","T","O",":","<">> \o Chars_xy \o <<">">> \o CRLF
L_RcptNoBrackets == V_RCPT \o <<" ","T","O",":">> \o Chars_cd \o CRLF
L_Rset == V_RSET \o CRLF
L_RsetX == V_RSET \o <<" ","x">> \o CRLF
L_Quit == V_QUIT \o CRLF
L_QuitX == V_QUIT \o <<" ","x">> \o CRLF
L_Data == V_DATA \o CRLF
L_DataX == V_DATA \o <<" ","x">> \o CRLF
L_Noop == V_NOOP \o CRLF
L_Vrfy == <<"V","R","F","Y"," ","a">> \o CRLF
L_QuitBareLF == V_QUIT \o <<LF>>

\* lines that exercise case, repeated spaces and trailing whitespace
P_ehloTwoSpaces == <<"e","h","l","o"," "," ","h"," ">> \o CRLF
P_HeloTab == <<"H","e","l","o"," ","h","\t">> \o CRLF
P_heloTwoWords == <<"h","e","l","o"," ","a"," ","b">> \o CRLF
P_noop == <<"n","o","o","p">> \o CRLF
P_rsetSpaces == <<"r","S","e","T"," "," ">> \o CRLF
P_Helo == V_HELO \o CRLF
P_Empty == CRLF

\* recipients whose domain part is examined
Chars_user == <<"u","s","e","r","@","E","X","A","M","P","L","E",".","c","o","m">>
Chars_noAt == <<"n","o","-","a","t","-","s","i","g","n">>
Chars_twoAt == <<"a","@","B","@","c">>
A_RcptUser == V_RCPT \o <<" ","T","O",":","<">> \o Chars_user \o <<">">> \o CRLF
A_RcptNoAt == V_RCPT \o <<" ","T","O",":","<">> \o Chars_noAt \o <<">">> \o CRLF
A_RcptTwoAt == V_RCPT \o <<" ","T","O",":","<">> \o Chars_twoAt \o <<">">> \o CRLF

ParseVocab ==
    { P_ehloTwoSpaces, P_HeloTab, P_heloTwoWords, P_noop, P_rsetSpaces, P_Helo,
      P_Empty, L_MailAB, A_RcptUser, A_RcptNoAt, A_RcptTwoAt }

Lines ==
    { L_EhloClient, L_HeloH, L_MailAB, L_MailNoBrackets, L_RcptCD, L_RcptXY,
      L_RcptNoBrackets, L_Rset, L_RsetX, L_Quit, L_QuitX, L_Data, L_DataX,
      L_Noop, L_Vrfy, L_QuitBareLF }

ScenarioVocab == { L_EhloH, L_MailAB, L_RcptCD, L_Quit }

ConcVocab == { L_MailAB, L_RcptNoBrackets, L_RcptCD, L_HeloH }

----------------------------------------------------------------------------
(* Envelopes.                                                              *)

\* the nil Envelope interface value
NoEnv == [id |-> 0, kind |-> "nil", rcpts |-> <<>>]

\* text of the error a caller-supplied envelope returns
RcptErrText == "mailbox unavailable"

\* BasicEnvelope.AddRecipient that forgets to store the recipient
BasicAddRecipient_drop(e, rcpt) == [env |-> e, err |-> NoError]

\* BasicEnvelope.AddRecipient that stores an address only once
BasicAddRecipient_dedup(e, rcpt) ==
    IF \E k \in 1..Len(e.rcpts) : e.rcpts[k] = rcpt
    THEN [env |-> e, err |-> NoError]
    ELSE [env |-> [e EXCEPT !.rcpts = Append(@, rcpt)], err |-> NoError]

\* BasicEnvelope.AddRecipient: always appends, never fails
BasicAddRecipient(e, rcpt) ==
    [env |-> [e EXCEPT !.rcpts = Append(@, rcpt)], err |-> NoError]

\* Envelope.AddRecipient through the interface; a caller-supplied envelope
\* accepts or refuses as its own policy (verdict) decides
AddRecipient(e, rcpt, verdict) ==
    IF e.kind = "basic" THEN BasicAddRecipient(e, rcpt)
    ELSE IF verdict THEN [env |-> [e EXCEPT !.rcpts = Append(@, rcpt)], err |-> NoError]
         ELSE [env |-> e, err |-> RcptErrText]

----------------------------------------------------------------------------
(* Sessions.                                                               *)

SysHostname == "localhost"

hostname(cfg) == IF cfg.Hostname # "" THEN cfg.Hostname ELSE SysHostname

\* one line written to the connection: reply code, separator, text pieces
Reply(code, sep, text) == [code |-> code, sep |-> sep, text |-> text]

\* a connection slot the listener has not accepted yet.  Besides the fields of
\* the session struct: bw is what sits in the bufio.Writer, out is what was
\* flushed to the connection, inp the lines ReadSlice returned, connErr, cbErr
\* and rcptErr the results of the last OnNewConnection, OnNewMail and
\* AddRecipient calls, and the two counters count the calls of OnNewMail and
\* Envelope.AddRecipient.
NoSession ==
    [pc |-> "none", env |-> NoEnv, helloType |-> <<>>, helloHost |-> <<>>,
     bw |-> <<>>, out |-> <<>>, inp |-> <<>>, connErr |-> FALSE, cbErr |-> FALSE,
     rcptErr |-> FALSE, newMailCalls |-> 0, addRcptCalls |-> 0]

newSession == [NoSession EXCEPT !.pc = "serve"]

\* fmt.Fprintf(s.bw, ...): the line goes into the buffered writer
Fprintf(s, code, sep, text) == [s EXCEPT !.bw = Append(@, Reply(code, sep, text))]

\* s.bw.Flush(): what is buffered goes out on the connection
Flush(s) == [s EXCEPT !.out = @ \o s.bw, !.bw = <<>>]

sendf(s, code, sep, text) == Flush(Fprintf(s, code, sep, text))

sendlinef(s, code, text) == sendf(s, code, " ", text)

\* the extension list with SIZE announced before PIPELINING
Extensions_reordered ==
    << Reply("250", "-", <<"SIZE 10240000">>),
       Reply("250", "-", <<"PIPELINING">>),
       Reply("250", "-", <<"ENHANCEDSTATUSCODES">>),
       Reply("250", "-", <<"8BITMIME">>),
       Reply("250", " ", <<"DSN">>) >>

Extensions ==
    << Reply("250", "-", <<"PIPELINING">>),
       Reply("250", "-", <<"SIZE 10240000">>),
       Reply("250", "-", <<"ENHANCEDSTATUSCODES">>),
       Reply("250", "-", <<"8BITMIME">>),
       Reply("250", " ", <<"DSN">>) >>

\* handleHello that leaves its reply in the buffered writer
handleHello_noFlush(s, cfg, greeting, host) ==
    [Fprintf(s, "250", "-", <<hostname(cfg)>>)
       EXCEPT !.helloType = greeting,
              !.helloHost = host,
              !.bw = @ \o Extensions]

handleHello(s, cfg, greeting, host) ==
    Flush([Fprintf(s, "250", "-", <<hostname(cfg)>>)
             EXCEPT !.helloType = greeting,
                    !.helloHost = host,
                    !.bw = @ \o Extensions])

\* results the OnNewMail callback may produce: (Envelope, os.Error); an
\* accept-all callback returns a fresh BasicEnvelope, any other callback may
\* return its own envelope, no envelope, or an error
NewMailResults(cfg) ==
    IF cfg.OnNewMail = "policy"
    THEN {[kind |-> "basic", err |-> FALSE], [kind |-> "custom", err |-> FALSE],
          [kind |-> "nil", err |-> FALSE], [kind |-> "nil", err |-> TRUE]}
    ELSE {[kind |-> "basic", err |-> FALSE]}

\* what a recipient policy may answer; BasicEnvelope has none
RcptVerdicts(e) == IF e.kind = "custom" THEN BOOLEAN ELSE {TRUE}

\* the envelope value the callback hands back
NewEnvelope(kind, id) ==
    IF kind = "nil" THEN NoEnv ELSE [id |-> id, kind |-> kind, rcpts |-> <<>>]

\* handleMailFrom without the nested-MAIL guard
handleMailFrom_noNestedGuard(s, cfg, email, r) ==
    IF cfg.OnNewMail = "nil"
    THEN sendf(s, "451", " ", <<"Server.OnNewMail not configured">>)
    ELSE LET called == [s EXCEPT !.env = NoEnv, !.newMailCalls = @ + 1,
                                 !.cbErr = r.err]
         IN  IF r.err THEN called
             ELSE sendlinef([called EXCEPT !.env = NewEnvelope(r.kind, called.newMailCalls)],
                            "250", <<"2.1.0 Ok">>)

\* handleMailFrom that takes a missing callback for one that accepts
handleMailFrom_nilCallbackAccepts(s, cfg, email, r) ==
    IF s.env # NoEnv
    THEN sendlinef(s, "503", <<"5.5.1 Error: nested MAIL command">>)
    ELSE LET called == [s EXCEPT !.env = NoEnv, !.newMailCalls = @ + 1,
                                 !.cbErr = r.err]
         IN  IF r.err THEN called
             ELSE sendlinef([called EXCEPT !.env = NewEnvelope(r.kind, called.newMailCalls)],
                            "250", <<"2.1.0 Ok">>)

\* handleMailFrom that relays the callback's rejection to the client
handleMailFrom_rejectReplies(s, cfg, email, r) ==
    IF s.env # NoEnv
    THEN sendlinef(s, "503", <<"5.5.1 Error: nested MAIL command">>)
    ELSE IF cfg.OnNewMail = "nil"
    THEN sendf(s, "451", " ", <<"Server.OnNewMail not configured">>)
    ELSE LET called == [s EXCEPT !.env = NoEnv, !.newMailCalls = @ + 1,
                                 !.cbErr = r.err]
         IN  IF r.err THEN sendlinef(called, "550", <<"5.7.1 Sender rejected">>)
             ELSE sendlinef([called EXCEPT !.env = NewEnvelope(r.kind, called.newMailCalls)],
                            "250", <<"2.1.0 Ok">>)

handleMailFrom(s, cfg, email, r) ==
    IF s.env # NoEnv
    THEN sendlinef(s, "503", <<"5.5.1 Error: nested MAIL command">>)
    ELSE IF cfg.OnNewMail = "nil"
    THEN sendf(s, "451", " ", <<"Server.OnNewMail not configured">>)
    ELSE LET called == [s EXCEPT !.env = NoEnv, !.newMailCalls = @ + 1,
                                 !.cbErr = r.err]
         IN  IF r.err THEN called
             ELSE sendlinef([called EXCEPT !.env = NewEnvelope(r.kind, called.newMailCalls)],
                            "250", <<"2.1.0 Ok">>)

\* handleRcpt without the need-MAIL guard
handleRcpt_noEnvGuard(s, line, verdict) ==
    LET m == rcptToRE(Arg(line))
        s1 == IF ~m.matched
              THEN sendlinef(s, "501", <<"5.1.7 Bad sender address syntax">>)
              ELSE s
    IN  IF ~m.matched THEN [s1 EXCEPT !.pc = "panic"]
        ELSE LET res == AddRecipient(s1.env, m.sub, verdict)
                 s2 == [s1 EXCEPT !.env = res.env, !.addRcptCalls = @ + 1,
                                  !.rcptErr = (res.err # NoError)]
             IN  IF res.err # NoError
                 THEN sendlinef(s2, "550", <<"bad recipient: ", res.err>>)
                 ELSE sendlinef(s2, "250", <<"2.1.0 Ok">>)

\* handleRcpt that gives up the envelope when a recipient is refused
handleRcpt_dropsEnvOnRefusal(s, line, verdict) ==
    IF s.env = NoEnv
    THEN sendlinef(s, "503", <<"5.5.1 Error: need MAIL command">>)
    ELSE LET m == rcptToRE(Arg(line))
             s1 == IF ~m.matched
                   THEN sendlinef(s, "501", <<"5.1.7 Bad sender address syntax">>)
                   ELSE s
         IN  IF ~m.matched THEN [s1 EXCEPT !.pc = "panic"]
             ELSE LET res == AddRecipient(s1.env, m.sub, verdict)
                      s2 == [s1 EXCEPT !.env = res.env, !.addRcptCalls = @ + 1,
                                       !.rcptErr = (res.err # NoError)]
                  IN  IF res.err # NoError
                      THEN sendlinef([s2 EXCEPT !.env = NoEnv], "550",
                                     <<"bad recipient: ", res.err>>)
                      ELSE sendlinef(s2, "250", <<"2.1.0 Ok">>)

\* m[1] with m == nil is an index out of range: the goroutine panics
handleRcpt(s, line, verdict) ==
    IF s.env = NoEnv
    THEN sendlinef(s, "503", <<"5.5.1 Error: need MAIL command">>)
    ELSE LET m == rcptToRE(Arg(line))
             s1 == IF ~m.matched
                   THEN sendlinef(s, "501", <<"5.1.7 Bad sender address syntax">>)
                   ELSE s
         IN  IF ~m.matched THEN [s1 EXCEPT !.pc = "panic"]
             ELSE LET res == AddRecipient(s1.env, m.sub, verdict)
                      s2 == [s1 EXCEPT !.env = res.env, !.addRcptCalls = @ + 1,
                                       !.rcptErr = (res.err # NoError)]
                  IN  IF res.err # NoError
                      THEN sendlinef(s2, "550", <<"bad recipient: ", res.err>>)
                      ELSE sendlinef(s2, "250", <<"2.1.0 Ok">>)

\* the loop iteration whose RSET leaves the envelope in place
serveLine_rsetKeepsEnv(s, cfg, l, r, verdict) ==
    LET s0 == [s EXCEPT !.inp = Append(@, l), !.cbErr = FALSE, !.rcptErr = FALSE]
        err == checkValid(l)
    IN  IF err # NoError THEN sendlinef(s0, "500", <<err>>)
        ELSE LET verb == Verb(l)
             IN  CASE verb \in {V_HELO, V_EHLO} -> handleHello(s0, cfg, verb, Arg(l))
                   [] verb = V_QUIT ->
                        [sendlinef(s0, "221", <<"2.0.0 Bye">>) EXCEPT !.pc = "closed"]
                   [] verb = V_RSET ->
                        sendlinef(s0, "250", <<"2.0.0 OK">>)
                   [] verb = V_NOOP -> sendlinef(s0, "250", <<"2.0.0 OK">>)
                   [] verb = V_MAIL ->
                        LET m == mailFromRE(Arg(l))
                        IN  IF ~m.matched
                            THEN sendlinef(s0, "501", <<"5.1.7 Bad sender address syntax">>)
                            ELSE handleMailFrom(s0, cfg, m.sub, r)
                   [] verb = V_RCPT -> handleRcpt(s0, l, verdict)
                   [] verb = V_DATA -> sendlinef(s0, "354", <<"Go ahead">>)
                   [] OTHER ->
                        sendlinef(s0, "502", <<"5.5.2 Error: command not recognized">>)

\* the loop iteration whose DATA ends the transaction
serveLine_dataEndsTransaction(s, cfg, l, r, verdict) ==
    LET s0 == [s EXCEPT !.inp = Append(@, l), !.cbErr = FALSE, !.rcptErr = FALSE]
        err == checkValid(l)
    IN  IF err # NoError THEN sendlinef(s0, "500", <<err>>)
        ELSE LET verb == Verb(l)
             IN  CASE verb \in {V_HELO, V_EHLO} -> handleHello(s0, cfg, verb, Arg(l))
                   [] verb = V_QUIT ->
                        [sendlinef(s0, "221", <<"2.0.0 Bye">>) EXCEPT !.pc = "closed"]
                   [] verb = V_RSET ->
                        sendlinef([s0 EXCEPT !.env = NoEnv], "250", <<"2.0.0 OK">>)
                   [] verb = V_NOOP -> sendlinef(s0, "250", <<"2.0.0 OK">>)
                   [] verb = V_MAIL ->
                        LET m == mailFromRE(Arg(l))
                        IN  IF ~m.matched
                            THEN sendlinef(s0, "501", <<"5.1.7 Bad sender address syntax">>)
                            ELSE handleMailFrom(s0, cfg, m.sub, r)
                   [] verb = V_RCPT -> handleRcpt(s0, l, verdict)
                   [] verb = V_DATA ->
                        sendlinef([s0 EXCEPT !.env = NoEnv], "354", <<"Go ahead">>)
                   [] OTHER ->
                        sendlinef(s0, "502", <<"5.5.2 Error: command not recognized">>)

\* one iteration of the loop in session.serve, after a successful ReadSlice
serveLine(s, cfg, l, r, verdict) ==
    LET s0 == [s EXCEPT !.inp = Append(@, l), !.cbErr = FALSE, !.rcptErr = FALSE]
        err == checkValid(l)
    IN  IF err # NoError THEN sendlinef(s0, "500", <<err>>)
        ELSE LET verb == Verb(l)
             IN  CASE verb \in {V_HELO, V_EHLO} -> handleHello(s0, cfg, verb, Arg(l))
                   [] verb = V_QUIT ->
                        [sendlinef(s0, "221", <<"2.0.0 Bye">>) EXCEPT !.pc = "closed"]
                   [] verb = V_RSET ->
                        sendlinef([s0 EXCEPT !.env = NoEnv], "250", <<"2.0.0 OK">>)
                   [] verb = V_NOOP -> sendlinef(s0, "250", <<"2.0.0 OK">>)
                   [] verb = V_MAIL ->
                        LET m == mailFromRE(Arg(l))
                        IN  IF ~m.matched
                            THEN sendlinef(s0, "501", <<"5.1.7 Bad sender address syntax">>)
                            ELSE handleMailFrom(s0, cfg, m.sub, r)
                   [] verb = V_RCPT -> handleRcpt(s0, l, verdict)
                   [] verb = V_DATA -> sendlinef(s0, "354", <<"Go ahead">>)
                   [] OTHER ->
                        sendlinef(s0, "502", <<"5.5.2 Error: command not recognized">>)

\* what the OnNewConnection callback may answer (a nil callback never vetoes)
GateResults(cfg) == IF cfg.OnNewConnection = "nil" THEN {FALSE} ELSE BOOLEAN

\* session.serve that greets before it asks the gate
serveStart_bannerFirst(s, cfg, veto) ==
    LET greeted == sendf(s, "220", " ", <<hostname(cfg), "ESMTP gosmtpd">>)
    IN  IF cfg.OnNewConnection # "nil" /\ veto
        THEN [greeted EXCEPT !.connErr = TRUE, !.pc = "closed"]
        ELSE [greeted EXCEPT !.pc = "loop"]

\* session.serve before the loop: the optional OnNewConnection gate (veto is
\* what the callback answers), then the banner
serveStart(s, cfg, veto) ==
    IF cfg.OnNewConnection # "nil" /\ veto
    THEN [s EXCEPT !.connErr = TRUE, !.pc = "closed"]
    ELSE [sendf(s, "220", " ", <<hostname(cfg), "ESMTP gosmtpd">>) EXCEPT !.pc = "loop"]

\* an unrecovered panic in one goroutine ends the whole process
Panic(ss, i, s) ==
    [j \in DOMAIN ss |->
        IF j = i THEN s
        ELSE IF ss[j].pc \in {"serve", "loop"} THEN [ss[j] EXCEPT !.pc = "killed"]
        ELSE ss[j]]

----------------------------------------------------------------------------
(* Actions.                                                                *)

\* Server.Serve: Accept succeeds, newSession, go sess.serve()
Accept ==
    /\ listening /\ ~crashed
    /\ \E i \in DOMAIN sess :
          /\ sess[i].pc = "none"
          /\ \A j \in DOMAIN sess : j < i => sess[j].pc # "none"
          /\ sess' = [sess EXCEPT ![i] = newSession]
    /\ UNCHANGED <<srv, peer, listening, crashed>>

\* Server.Serve: Accept fails with a non-temporary error, Serve returns
AcceptFail ==
    /\ listening /\ ~crashed
    /\ listening' = FALSE
    /\ UNCHANGED <<srv, peer, crashed, sess>>

\* session.serve up to the banner
Start(i) ==
    /\ ~crashed
    /\ sess[i].pc = "serve"
    /\ \E veto \in GateResults(srv) :
          sess' = [sess EXCEPT ![i] = serveStart(@, srv, veto)]
    /\ UNCHANGED <<srv, peer, listening, crashed>>

\* session.serve: ReadSlice fails (peer closed, I/O error, line too long)
ReadError(i) ==
    /\ ~crashed
    /\ sess[i].pc = "loop"
    /\ sess' = [sess EXCEPT ![i].pc = "closed"]
    /\ UNCHANGED <<srv, peer, listening, crashed>>

\* session.serve: one line is read and handled
Command(i) ==
    /\ ~crashed
    /\ sess[i].pc = "loop"
    /\ Len(sess[i].inp) < peer.maxLines
    /\ \E l \in peer.vocab, r \in NewMailResults(srv),
          verdict \in RcptVerdicts(sess[i].env) :
          LET s == serveLine(sess[i], srv, l, r, verdict)
          IN  IF s.pc = "panic"
              THEN /\ sess' = Panic(sess, i, s)
                   /\ crashed' = TRUE
                   /\ listening' = FALSE
              ELSE /\ sess' = [sess EXCEPT ![i] = s]
                   /\ UNCHANGED <<crashed, listening>>
    /\ UNCHANGED <<srv, peer>>

Next ==
    \/ Accept
    \/ AcceptFail
    \/ \E i \in DOMAIN sess : Start(i)
    \/ \E i \in DOMAIN sess : ReadError(i)
    \/ \E i \in DOMAIN sess : Command(i)

Configs ==
    [Hostname : {"mx.example.org"},
     OnNewConnection : {"nil", "policy"},
     OnNewMail : {"nil", "acceptAll", "policy"}]

InitWith(cfgs, vocab, maxLines, n) ==
    /\ srv \in cfgs
    /\ peer = [vocab |-> vocab, maxLines |-> maxLines]
    /\ listening = TRUE
    /\ crashed = FALSE
    /\ sess = [i \in 1..n |-> NoSession]

\* one connection; a server without callbacks, one with an accept-all
\* OnNewMail, and one whose two callbacks decide freely
Init ==
    InitWith({c \in Configs : \/ c.OnNewConnection = "nil" /\ c.OnNewMail # "policy"
                              \/ c.OnNewConnection = "policy" /\ c.OnNewMail = "policy"},
             Lines, MaxLines, 1)

Spec == Init /\ [][Next]_vars

\* the end-to-end scenario: accept-all callback, no connection gate
InitScenario ==
    InitWith({c \in Configs : c.OnNewConnection = "nil" /\ c.OnNewMail = "acceptAll"},
             ScenarioVocab, ScenarioLines, 1)

SpecScenario == InitScenario /\ [][Next]_vars

\* several connections served concurrently
InitConc ==
    InitWith({c \in Configs : c.OnNewConnection = "nil" /\ c.OnNewMail = "acceptAll"},
             ConcVocab, ConcLines, NumSessions)

SpecConc == InitConc /\ [][Next]_vars

\* one connection whose client tries the spellings of command lines
InitParse ==
    InitWith({c \in Configs : c.OnNewConnection = "nil" /\ c.OnNewMail = "acceptAll"},
             ParseVocab, ParseLines, 1)

SpecParse == InitParse /\ [][Next]_vars

----------------------------------------------------------------------------
(* Vocabulary of the properties.                                           *)

\* session i read and handled one more line in this step
Handled(i) == Len(sess'[i].inp) = Len(sess[i].inp) + 1

\* the last line a session read
LastLine(s) == s.inp[Len(s.inp)]

\* what session i wrote in this step
NewOut(i) == SubSeq(sess'[i].out, Len(sess[i].out) + 1, Len(sess'[i].out))

LastReply(s) == s.out[Len(s.out)]

EndsCRLF(l) == Len(l) >= 2 /\ l[Len(l) - 1] = CR /\ l[Len(l)] = LF

\* a well-framed line with the given verb
IsCmd(l, verb) == EndsCRLF(l) /\ Verb(l) = verb

\* MAIL whose argument matches From:<address>
IsValidMail(l) == IsCmd(l, V_MAIL) /\ mailFromRE(Arg(l)).matched

\* MAIL whose argument starts with FROM:
IsMailFrom(l) ==
    /\ IsCmd(l, V_MAIL)
    /\ Len(Arg(l)) >= 5
    /\ ToUpper(SubSeq(Arg(l), 1, 5)) = <<"F","R","O","M",":">>

\* RCPT whose argument does not match To:<address>
IsBadRcpt(l) == IsCmd(l, V_RCPT) /\ ~rcptToRE(Arg(l)).matched

R220 == Reply("220", " ", <<"mx.example.org", "ESMTP gosmtpd">>)
R221 == Reply("221", " ", <<"2.0.0 Bye">>)
R250Mail == Reply("250", " ", <<"2.1.0 Ok">>)
R451 == Reply("451", " ", <<"Server.OnNewMail not configured">>)
R501 == Reply("501", " ", <<"5.1.7 Bad sender address syntax">>)
R503Nested == Reply("503", " ", <<"5.5.1 Error: nested MAIL command">>)
R503NeedMail == Reply("503", " ", <<"5.5.1 Error: need MAIL command">>)

----------------------------------------------------------------------------
(* C1 - a valid MAIL received while an envelope is active is answered 503, *)
(* the envelope and its recipients stay as they are and OnNewMail is not   *)
(* called; an envelope is never exchanged for another one in one step; and *)
(* with an accept-all callback MAIL FROM:<a@b.com> sent twice at the start *)
(* of a session is answered 250 and then 503.                              *)
C1_NestedMailRejected ==
    /\ [][\A i \in DOMAIN sess :
            /\ (Handled(i) /\ sess[i].env # NoEnv /\ IsValidMail(LastLine(sess'[i])))
                 => /\ NewOut(i) = <<R503Nested>>
                    /\ sess'[i].env = sess[i].env
                    /\ sess'[i].newMailCalls = sess[i].newMailCalls
            /\ (sess[i].env # NoEnv /\ sess'[i].env # NoEnv)
                 => sess'[i].env.id = sess[i].env.id]_vars
    /\ [](\A i \in DOMAIN sess :
            (/\ srv.OnNewMail = "acceptAll"
             /\ Len(sess[i].inp) >= 2
             /\ sess[i].inp[1] = L_MailAB /\ sess[i].inp[2] = L_MailAB)
              => sess[i].out[2] = R250Mail /\ sess[i].out[3] = R503Nested)

C1_Witness ==
    \E i \in DOMAIN sess :
        /\ Len(sess[i].inp) = 3
        /\ sess[i].inp[1] = L_MailAB /\ sess[i].inp[2] = L_RcptCD
        /\ sess[i].inp[3] = L_MailAB
        /\ LastReply(sess[i]) = R503Nested
        /\ sess[i].env.rcpts = <<Chars_cd>>

(* C2 - a RCPT whose argument does not match To:<address>, received while  *)
(* an envelope is active, is answered with exactly one 501, AddRecipient   *)
(* is not called, the envelope is unchanged and the session goes on        *)
(* reading commands.                                                       *)
C2_BadRcptContinues ==
    [][\A i \in DOMAIN sess :
         (Handled(i) /\ sess[i].env # NoEnv /\ IsBadRcpt(LastLine(sess'[i])))
           => /\ NewOut(i) = <<R501>>
              /\ sess'[i].addRcptCalls = sess[i].addRcptCalls
              /\ sess'[i].env = sess[i].env
              /\ sess'[i].pc = "loop"
              /\ ~crashed']_vars

\* a step taken by session i itself
StepOf(i) ==
    /\ sess[i].pc \in {"serve", "loop"}
    /\ sess'[i] # sess[i]
    /\ sess'[i].pc # "killed"

(* C3 - no step of one session ends or changes another session or ends the *)
(* accept loop.                                                            *)
C3_SessionsIsolated ==
    [][\A i, j \in DOMAIN sess :
         (i # j /\ StepOf(i)) => sess'[j] = sess[j] /\ listening' = listening]_vars

(* C4 - with no active envelope every RCPT, whatever its argument, is      *)
(* answered 503, no envelope appears and AddRecipient is not called.       *)
C4_RcptNeedsMail ==
    [][\A i \in DOMAIN sess :
         (Handled(i) /\ sess[i].env = NoEnv /\ IsCmd(LastLine(sess'[i]), V_RCPT))
           => /\ NewOut(i) = <<R503NeedMail>>
              /\ sess'[i].env = NoEnv
              /\ sess'[i].addRcptCalls = sess[i].addRcptCalls
              /\ sess'[i].pc = "loop"]_vars

\* RCPT refused after the callback turned the sender down
C4_Witness ==
    \E i \in DOMAIN sess :
        /\ Len(sess[i].inp) = 2
        /\ sess[i].inp[1] = L_MailAB /\ sess[i].inp[2] = L_RcptNoBrackets
        /\ sess[i].newMailCalls = 1
        /\ sess[i].env = NoEnv
        /\ sess[i].out = <<R220, R503NeedMail>>

(* C5 as stated - without an OnNewMail callback every MAIL FROM command is *)
(* answered 451.                                                           *)
C5_EveryMailFrom451 ==
    [][\A i \in DOMAIN sess :
         (srv.OnNewMail = "nil" /\ Handled(i) /\ IsMailFrom(LastLine(sess'[i])))
           => NewOut(i) = <<R451>>]_vars

(* C5 - without an OnNewMail callback every MAIL whose argument matches    *)
(* From:<address> is answered 451 and any other MAIL 501, no envelope ever *)
(* exists, and the session goes on.                                        *)
C5_NoCallback451 ==
    /\ [](\A i \in DOMAIN sess : srv.OnNewMail = "nil" => sess[i].env = NoEnv)
    /\ [][\A i \in DOMAIN sess :
            (srv.OnNewMail = "nil" /\ Handled(i) /\ IsCmd(LastLine(sess'[i]), V_MAIL))
              => /\ NewOut(i) = <<IF IsValidMail(LastLine(sess'[i])) THEN R451 ELSE R501>>
                 /\ sess'[i].newMailCalls = 0
                 /\ sess'[i].pc = "loop"]_vars

C5_Witness ==
    \E i \in DOMAIN sess :
        /\ srv.OnNewMail = "nil"
        /\ Len(sess[i].inp) = 2
        /\ sess[i].inp[1] = L_MailAB
        /\ sess[i].out[2] = R451
        /\ sess[i].inp[2] = L_MailNoBrackets
        /\ sess[i].out[3] = R501

(* C6 - when OnNewMail returns an error for a valid MAIL, nothing is       *)
(* written for that command, the envelope stays nil and the session stays  *)
(* in its loop; a RCPT that follows is answered 503 and a valid MAIL that  *)
(* follows calls OnNewMail again.                                          *)
C6_SilentRejection ==
    [][\A i \in DOMAIN sess :
         Handled(i) =>
           /\ sess'[i].cbErr
                => /\ IsValidMail(LastLine(sess'[i]))
                   /\ sess[i].env = NoEnv
                   /\ sess'[i].out = sess[i].out
                   /\ sess'[i].env = NoEnv
                   /\ sess'[i].pc = "loop"
                   /\ ~crashed'
           /\ sess[i].cbErr
                => /\ IsCmd(LastLine(sess'[i]), V_RCPT) => NewOut(i) = <<R503NeedMail>>
                   /\ IsValidMail(LastLine(sess'[i]))
                        => sess'[i].newMailCalls = sess[i].newMailCalls + 1]_vars

\* the sender was turned down in silence, the RCPT after it got 503
C6_Witness ==
    \E i \in DOMAIN sess :
        /\ sess[i].inp = <<L_MailAB, L_RcptXY>>
        /\ sess[i].newMailCalls = 1
        /\ sess[i].out = <<R220, R503NeedMail>>
        /\ sess[i].pc = "loop"

(* C7 - a connection the OnNewConnection callback refuses gets no output,  *)
(* no line of it is read, and it is closed; on every other connection the  *)
(* 220 banner is the first thing written and is written before a line is   *)
(* read.                                                                   *)
C7_GateBeforeBanner ==
    \A i \in DOMAIN sess :
        /\ sess[i].connErr
             => /\ srv.OnNewConnection # "nil"
                /\ sess[i].out = <<>>
                /\ sess[i].inp = <<>>
                /\ sess[i].pc = "closed"
        /\ (sess[i].pc \in {"loop", "closed", "killed", "panic"} /\ ~sess[i].connErr)
             => sess[i].out # <<>>
        /\ sess[i].out # <<>> => sess[i].out[1] = R220
        /\ sess[i].inp # <<>> => sess[i].out # <<>>

C7_Witness ==
    \E i \in DOMAIN sess :
        sess[i].connErr /\ sess[i].pc = "closed" /\ sess[i].out = <<>>

(* C8 as stated - the reply to EHLO client.example has exactly five lines, *)
(* the first four prefixed 250- and the last prefixed 250 and a space.     *)
C8_EhloFiveLines ==
    [][\A i \in DOMAIN sess :
         (Handled(i) /\ LastLine(sess'[i]) = L_EhloClient)
           => /\ Len(NewOut(i)) = 5
              /\ \A k \in 1..4 : NewOut(i)[k].code = "250" /\ NewOut(i)[k].sep = "-"
              /\ NewOut(i)[5].code = "250" /\ NewOut(i)[5].sep = " "]_vars

(* C8 - in any session state the reply to EHLO client.example has exactly  *)
(* six lines: 250-<hostname>, then PIPELINING, SIZE, ENHANCEDSTATUSCODES,  *)
(* 8BITMIME, DSN in this order; the first five lines are prefixed 250- and *)
(* the last one 250 and a space.                                           *)
C8_EhloSixLines ==
    [][\A i \in DOMAIN sess :
         (Handled(i) /\ LastLine(sess'[i]) = L_EhloClient)
           => /\ Len(NewOut(i)) = 6
              /\ \A k \in 1..5 : NewOut(i)[k].code = "250" /\ NewOut(i)[k].sep = "-"
              /\ NewOut(i)[6].code = "250" /\ NewOut(i)[6].sep = " "
              /\ NewOut(i)[1].text = <<"mx.example.org">>
              /\ [k \in 1..5 |-> NewOut(i)[k + 1].text] =
                   << <<"PIPELINING">>, <<"SIZE 10240000">>, <<"ENHANCEDSTATUSCODES">>,
                      <<"8BITMIME">>, <<"DSN">> >>]_vars

\* EHLO client.example in the middle of a transaction
C8_Witness ==
    \E i \in DOMAIN sess :
        /\ Len(sess[i].inp) = 2
        /\ sess[i].inp[2] = L_EhloClient
        /\ sess[i].env # NoEnv
        /\ Len(sess[i].out) = 8
        /\ LastReply(sess[i]) = Reply("250", " ", <<"DSN">>)

ScenarioInput == <<L_EhloH, L_MailAB, L_RcptCD, L_Quit>>

ScenarioOutput ==
    << R220,
       Reply("250", "-", <<"mx.example.org">>),
       Reply("250", "-", <<"PIPELINING">>),
       Reply("250", "-", <<"SIZE 10240000">>),
       Reply("250", "-", <<"ENHANCEDSTATUSCODES">>),
       Reply("250", "-", <<"8BITMIME">>),
       Reply("250", " ", <<"DSN">>),
       R250Mail,
       R250Mail,
       R221 >>

(* C9 - with an accept-all callback and no gate, EHLO h, MAIL FROM:        *)
(* <a@b.com>, RCPT TO:<c@d.com>, QUIT produce the banner, the six-line     *)
(* capability reply, 250 2.1.0 Ok twice and 221 2.0.0 Bye, and then the    *)
(* connection is closed; at the RCPT reply the envelope holds exactly      *)
(* c@d.com.                                                                *)
C9_EndToEnd ==
    \A i \in DOMAIN sess :
        /\ sess[i].inp = ScenarioInput
             => sess[i].out = ScenarioOutput /\ sess[i].pc = "closed"
        /\ sess[i].inp = SubSeq(ScenarioInput, 1, 3)
             => /\ sess[i].out = SubSeq(ScenarioOutput, 1, 9)
                /\ sess[i].env.kind = "basic"
                /\ sess[i].env.rcpts = <<Chars_cd>>

C9_Witness ==
    \E i \in DOMAIN sess : sess[i].inp = ScenarioInput /\ sess[i].pc = "closed"

\* the lines the framing rule refuses
FramingError(l) ==
    \/ ~EndsCRLF(l)
    \/ Verb(l) \in {V_RSET, V_DATA, V_QUIT} /\ Arg(l) # <<>>

(* C10 - a line without CRLF, and a CRLF line whose verb is RSET, DATA or  *)
(* QUIT with a non-empty argument, is answered 500 and changes nothing     *)
(* else, the session going on; every other CRLF line passes validation.    *)
C10_FramingErrors ==
    [][\A i \in DOMAIN sess :
         Handled(i) =>
           IF FramingError(LastLine(sess'[i]))
           THEN /\ Len(NewOut(i)) = 1
                /\ NewOut(i)[1].code = "500"
                /\ sess'[i].env = sess[i].env
                /\ sess'[i].helloType = sess[i].helloType
                /\ sess'[i].helloHost = sess[i].helloHost
                /\ sess'[i].newMailCalls = sess[i].newMailCalls
                /\ sess'[i].addRcptCalls = sess[i].addRcptCalls
                /\ sess'[i].pc = "loop"
                /\ ~crashed'
           ELSE /\ checkValid(LastLine(sess'[i])) = NoError
                /\ \A k \in 1..Len(NewOut(i)) : NewOut(i)[k].code # "500"]_vars

\* RSET x left the envelope in place, QUIT x left the session running
C10_Witness ==
    \E i \in DOMAIN sess :
        /\ sess[i].inp = <<L_MailAB, L_RsetX, L_QuitX>>
        /\ sess[i].env # NoEnv
        /\ LastReply(sess[i]).code = "500"
        /\ sess[i].pc = "loop"


\* a line without its CRLF
Body(l) == SubSeq(l, 1, Len(l) - 2)

CasePairs == {<<LowerChars[k], UpperChars[k]>> : k \in 1..26}

\* v is w with its letters in upper case
IsUpperOf(v, w) ==
    /\ Len(v) = Len(w)
    /\ \A j \in 1..Len(w) :
          \/ <<w[j], v[j]>> \in CasePairs
          \/ v[j] = w[j] /\ \A pr \in CasePairs : pr[1] # w[j]

AllSpace(s) == \A j \in 1..Len(s) : IsSpace(s[j])

\* v is the token of l before its first space, in upper case
IsVerbOf(v, l) ==
    LET b == Body(l)
        sp == {k \in 1..Len(b) : b[k] = " "}
    IN  IF sp = {} THEN IsUpperOf(v, b)
        ELSE \E k \in sp : (\A j \in sp : k <= j) /\ IsUpperOf(v, SubSeq(b, 1, k - 1))

\* the text of l after its first space, CRLF removed
AfterFirstSpace(l) ==
    LET b == Body(l)
        sp == {k \in 1..Len(b) : b[k] = " "}
    IN  IF sp = {} THEN <<>>
        ELSE SubSeq(b, (CHOOSE k \in sp : \A j \in sp : k <= j) + 1, Len(b))

\* a is t without its trailing whitespace
IsRightTrimOf(a, t) ==
    /\ Len(a) <= Len(t)
    /\ a = SubSeq(t, 1, Len(a))
    /\ AllSpace(SubSeq(t, Len(a) + 1, Len(t)))
    /\ a # <<>> => ~IsSpace(a[Len(a)])

\* a is t without its leading and trailing whitespace
IsTrimOf(a, t) ==
    \E lead \in 0..Len(t) :
        /\ AllSpace(SubSeq(t, 1, lead))
        /\ IsRightTrimOf(a, SubSeq(t, lead + 1, Len(t)))
        /\ a # <<>> => ~IsSpace(a[1])

IsHello(l) == EndsCRLF(l) /\ (IsVerbOf(V_HELO, l) \/ IsVerbOf(V_EHLO, l))

(* C11 as stated - for every CRLF line the verb is the upper-cased token   *)
(* before the first space and the argument is the text after the first     *)
(* space without CRLF and without leading or trailing whitespace.          *)
C11_ArgTrimmedBothSides ==
    \A i \in DOMAIN sess :
        /\ \A k \in 1..Len(sess[i].inp) :
              EndsCRLF(sess[i].inp[k])
                => /\ IsVerbOf(Verb(sess[i].inp[k]), sess[i].inp[k])
                   /\ IsTrimOf(Arg(sess[i].inp[k]), AfterFirstSpace(sess[i].inp[k]))
        /\ (sess[i].inp # <<>> /\ IsHello(LastLine(sess[i])))
              => IsTrimOf(sess[i].helloHost, AfterFirstSpace(LastLine(sess[i])))

(* C11 - for every CRLF line the verb is the token before the first space  *)
(* (the whole line without CRLF if it has no space) in upper case, and the *)
(* argument is the text after the first space without the CRLF and without *)
(* trailing whitespace, empty if the line has no space; whitespace at the  *)
(* start of that text is kept.                                             *)
C11_VerbUpperArgRightTrimmed ==
    \A i \in DOMAIN sess :
        /\ \A k \in 1..Len(sess[i].inp) :
              EndsCRLF(sess[i].inp[k])
                => /\ IsVerbOf(Verb(sess[i].inp[k]), sess[i].inp[k])
                   /\ IsRightTrimOf(Arg(sess[i].inp[k]), AfterFirstSpace(sess[i].inp[k]))
        /\ (sess[i].inp # <<>> /\ IsHello(LastLine(sess[i])))
              => /\ IsVerbOf(sess[i].helloType, LastLine(sess[i]))
                 /\ IsRightTrimOf(sess[i].helloHost, AfterFirstSpace(LastLine(sess[i])))

\* "ehlo  h " was taken as EHLO with the argument " h"
C11_Witness ==
    \E i \in DOMAIN sess :
        /\ sess[i].inp # <<>>
        /\ LastLine(sess[i]) = P_ehloTwoSpaces
        /\ sess[i].helloType = V_EHLO
        /\ sess[i].helloHost = <<" ", "h">>


\* v is w with its letters in lower case
IsLowerOf(v, w) ==
    /\ Len(v) = Len(w)
    /\ \A j \in 1..Len(w) :
          \/ <<v[j], w[j]>> \in CasePairs
          \/ v[j] = w[j] /\ \A pr \in CasePairs : pr[2] # w[j]

\* d is what follows the last @ of a, in lower case; empty without an @
IsDomainAfterLastAt(d, a) ==
    LET ats == {k \in 1..Len(a) : a[k] = "@"}
    IN  IF ats = {} THEN d = <<>>
        ELSE \E k \in ats :
                (\A j \in ats : j <= k) /\ IsLowerOf(d, SubSeq(a, k + 1, Len(a)))

(* C12 - for every address the domain is what follows the LAST @, in lower *)
(* case, and empty when there is no @ (user@EXAMPLE.com gives example.com, *)
(* no-at-sign gives the empty string); email() is the address unchanged.   *)
C12_DomainAfterLastAt ==
    \A i \in DOMAIN sess :
        /\ \A k \in 1..Len(sess[i].env.rcpts) :
              IsDomainAfterLastAt(Hostname(sess[i].env.rcpts[k]), sess[i].env.rcpts[k])
        /\ sess[i].inp = <<L_MailAB, A_RcptUser>>
              => /\ Email(sess[i].env.rcpts[1]) = Chars_user
                 /\ Hostname(sess[i].env.rcpts[1]) =
                      <<"e","x","a","m","p","l","e",".","c","o","m">>
        /\ sess[i].inp = <<L_MailAB, A_RcptNoAt>>
              => /\ Email(sess[i].env.rcpts[1]) = Chars_noAt
                 /\ Hostname(sess[i].env.rcpts[1]) = <<>>


(* C13 as stated - when AddRecipient fails the client gets one 550 reply   *)
(* whose body is the envelope's failure text verbatim.                     *)
C13_RefusalTextVerbatim ==
    [][\A i \in DOMAIN sess :
         (Handled(i) /\ sess'[i].rcptErr)
           => NewOut(i) = <<Reply("550", " ", <<RcptErrText>>)>>]_vars

(* C13 - when an envelope is active and AddRecipient fails for a valid     *)
(* RCPT, the client gets exactly one 550 reply whose body is "bad          *)
(* recipient: " followed by the envelope's failure text, the envelope      *)
(* stays active (a RCPT that follows is not answered 503, a MAIL that      *)
(* follows is answered 503) and the session goes on.                       *)
C13_RefusalRelayed ==
    [][\A i \in DOMAIN sess :
         Handled(i) =>
           /\ sess'[i].rcptErr
                => /\ IsCmd(LastLine(sess'[i]), V_RCPT)
                   /\ rcptToRE(Arg(LastLine(sess'[i]))).matched
                   /\ sess[i].env # NoEnv
                   /\ NewOut(i) = <<Reply("550", " ", <<"bad recipient: ", RcptErrText>>)>>
                   /\ sess'[i].env = sess[i].env
                   /\ sess'[i].pc = "loop"
                   /\ ~crashed'
           /\ sess[i].rcptErr
                => /\ IsCmd(LastLine(sess'[i]), V_RCPT)
                        => \A k \in 1..Len(NewOut(i)) : NewOut(i)[k].code # "503"
                   /\ IsValidMail(LastLine(sess'[i])) => NewOut(i) = <<R503Nested>>]_vars

\* the recipient was refused with 550, the MAIL after it with 503
C13_Witness ==
    \E i \in DOMAIN sess :
        /\ sess[i].inp = <<L_MailAB, L_RcptCD, L_MailAB>>
        /\ Len(sess[i].out) = 4
        /\ sess[i].out[3].code = "550"
        /\ sess[i].out[4] = R503Nested
        /\ sess[i].env.kind = "custom"


\* the address a well-formed RCPT line of the vocabulary names
RcptAddress(l) == IF l = L_RcptCD THEN Chars_cd ELSE Chars_xy

(* C14 - with the default envelope the recipient list is exactly the       *)
(* addresses of the RCPT commands answered 250 since the accepting MAIL,   *)
(* in arrival order and with duplicates; no RCPT is refused and no other   *)
(* command adds, removes or reorders recipients.                           *)
C14_BasicEnvelopeAccumulates ==
    /\ [][\A i \in DOMAIN sess :
            Handled(i) =>
              /\ sess[i].env.kind = "basic" =>
                   IF LastLine(sess'[i]) \in {L_RcptCD, L_RcptXY}
                   THEN /\ NewOut(i) = <<R250Mail>>
                        /\ sess'[i].env.id = sess[i].env.id
                        /\ sess'[i].env.rcpts =
                             sess[i].env.rcpts \o <<RcptAddress(LastLine(sess'[i]))>>
                   ELSE IF IsCmd(LastLine(sess'[i]), V_RSET) /\ Arg(LastLine(sess'[i])) = <<>>
                   THEN sess'[i].env = NoEnv
                   ELSE sess'[i].env = sess[i].env
              /\ (sess[i].env = NoEnv /\ sess'[i].env # NoEnv)
                   => /\ IsValidMail(LastLine(sess'[i]))
                      /\ NewOut(i) = <<R250Mail>>
                      /\ sess'[i].env.rcpts = <<>>]_vars
    /\ [](\A i \in DOMAIN sess :
            sess[i].env.kind = "basic" =>
              /\ sess[i].inp = <<L_MailAB, L_RcptXY, L_RcptCD>>
                   => sess[i].env.rcpts = <<Chars_xy, Chars_cd>>
              /\ sess[i].inp = <<L_MailAB, L_RcptCD, L_RcptCD>>
                   => sess[i].env.rcpts = <<Chars_cd, Chars_cd>>)

\* the same recipient accepted twice and kept twice
C14_Witness ==
    \E i \in DOMAIN sess :
        /\ sess[i].inp = <<L_MailAB, L_RcptCD, L_RcptCD>>
        /\ sess[i].env.kind = "basic"
        /\ sess[i].env.rcpts = <<Chars_cd, Chars_cd>>
        /\ sess[i].out = <<R220, R250Mail, R250Mail, R250Mail>>


(* C15 - a session ends only by a valid QUIT, answered 221 2.0.0 Bye       *)
(* first, by a failed read, or by the gate's veto; it is then closed and   *)
(* neither reads nor writes again; no other command or error reply ends    *)
(* it.                                                                     *)
C15_OnlyQuitOrReadFailureEnds ==
    [][\A i \in DOMAIN sess :
         /\ (sess[i].pc = "loop" /\ sess'[i].pc # "loop")
              => /\ sess'[i].pc = "closed"
                 /\ IF Handled(i)
                    THEN /\ IsCmd(LastLine(sess'[i]), V_QUIT)
                         /\ Arg(LastLine(sess'[i])) = <<>>
                         /\ NewOut(i) = <<R221>>
                    ELSE sess'[i].out = sess[i].out
         /\ (sess[i].pc = "serve" /\ sess'[i].pc \notin {"serve", "loop"})
              => sess'[i].pc = "closed" /\ sess'[i].connErr
         /\ sess[i].pc = "closed" => sess'[i] = sess[i]]_vars


R250Ok == Reply("250", " ", <<"2.0.0 OK">>)
R354 == Reply("354", " ", <<"Go ahead">>)
R502 == Reply("502", " ", <<"5.5.2 Error: command not recognized">>)

(* C16 - a session handles its lines one at a time in arrival order: the   *)
(* whole reply of a command, every line of a multi-line reply included, is *)
(* on the connection before the next line is read, so replies follow each  *)
(* other in the order of their commands and nothing written is changed    *)
(* later.                                                                  *)
C16_RepliesInCommandOrder ==
    /\ [](\A i \in DOMAIN sess :
            /\ sess[i].pc = "loop" => sess[i].bw = <<>>
            /\ sess[i].inp = <<L_EhloClient, L_Noop>>
                 => /\ Len(sess[i].out) = 8
                    /\ sess[i].out[7] = Reply("250", " ", <<"DSN">>)
                    /\ sess[i].out[8] = R250Ok)
    /\ [][\A i \in DOMAIN sess :
            /\ Len(sess'[i].out) >= Len(sess[i].out)
            /\ SubSeq(sess'[i].out, 1, Len(sess[i].out)) = sess[i].out
            /\ Len(sess'[i].inp) >= Len(sess[i].inp)
            /\ SubSeq(sess'[i].inp, 1, Len(sess[i].inp)) = sess[i].inp
            /\ Len(sess'[i].inp) <= Len(sess[i].inp) + 1
            /\ (sess[i].pc = "loop" /\ ~Handled(i)) => sess'[i].out = sess[i].out
            /\ Handled(i) => sess'[i].bw = <<>>
            /\ (Handled(i) /\ IsHello(LastLine(sess'[i])))
                 => Len(NewOut(i)) = 6 /\ NewOut(i)[6].sep = " "]_vars

\* three commands, three replies in the same order, the first of six lines
C16_Witness ==
    \E i \in DOMAIN sess :
        /\ sess[i].inp = <<L_EhloClient, L_Noop, L_Data>>
        /\ Len(sess[i].out) = 9
        /\ sess[i].out[8] = R250Ok
        /\ sess[i].out[9] = R354
        /\ sess[i].bw = <<>>


\* a well-framed RSET without argument
IsValidRset(l) == IsCmd(l, V_RSET) /\ Arg(l) = <<>>

(* C17 - a valid RSET in any state is answered 250 2.0.0 and leaves no     *)
(* envelope, the hello fields as they were; the RCPT after it is answered  *)
(* 503 and the valid MAIL after it is not answered 503 but handed to       *)
(* OnNewMail, so that a new transaction can start.                         *)
C17_RsetClearsEnvelope ==
    [][\A i \in DOMAIN sess :
         Handled(i) =>
           /\ IsValidRset(LastLine(sess'[i]))
                => /\ NewOut(i) = <<R250Ok>>
                   /\ sess'[i].env = NoEnv
                   /\ sess'[i].helloType = sess[i].helloType
                   /\ sess'[i].helloHost = sess[i].helloHost
                   /\ sess'[i].pc = "loop"
           /\ (sess[i].inp # <<>> /\ IsValidRset(LastLine(sess[i])))
                => /\ IsCmd(LastLine(sess'[i]), V_RCPT) => NewOut(i) = <<R503NeedMail>>
                   /\ IsValidMail(LastLine(sess'[i]))
                        => /\ NewOut(i) # <<R503Nested>>
                           /\ srv.OnNewMail # "nil"
                                => sess'[i].newMailCalls = sess[i].newMailCalls + 1]_vars

\* a second transaction started after RSET
C17_Witness ==
    \E i \in DOMAIN sess :
        /\ sess[i].inp = <<L_MailAB, L_Rset, L_MailAB>>
        /\ sess[i].out = <<R220, R250Mail, R250Ok, R250Mail>>
        /\ sess[i].env.id = 2
        /\ sess[i].env.rcpts = <<>>

KnownVerbs == {V_HELO, V_EHLO, V_QUIT, V_RSET, V_NOOP, V_MAIL, V_RCPT, V_DATA}

\* envelope, recipients and hello fields of session i are left alone
SessionFrame(i) ==
    /\ sess'[i].env = sess[i].env
    /\ sess'[i].helloType = sess[i].helloType
    /\ sess'[i].helloHost = sess[i].helloHost

(* C18 - the envelope reference changes only by an accepted MAIL (nil to   *)
(* an envelope) and by RSET (to nil); NOOP (250), DATA (354, in any        *)
(* state), unrecognized verbs (502) and invalid lines (500) leave          *)
(* envelope, recipients and hello fields alone, HELO/EHLO and RCPT leave   *)
(* the envelope reference alone; the line after DATA is an ordinary        *)
(* command.                                                                *)
C18_OnlyMailAndRsetChangeEnvelope ==
    [][\A i \in DOMAIN sess :
         Handled(i) =>
           /\ sess'[i].env.id # sess[i].env.id
                => \/ /\ sess[i].env = NoEnv
                      /\ IsValidMail(LastLine(sess'[i]))
                      /\ NewOut(i) = <<R250Mail>>
                   \/ sess'[i].env = NoEnv /\ IsValidRset(LastLine(sess'[i]))
           /\ IsCmd(LastLine(sess'[i]), V_NOOP)
                => NewOut(i) = <<R250Ok>> /\ SessionFrame(i)
           /\ (IsCmd(LastLine(sess'[i]), V_DATA) /\ Arg(LastLine(sess'[i])) = <<>>)
                => NewOut(i) = <<R354>> /\ SessionFrame(i)
           /\ (EndsCRLF(LastLine(sess'[i])) /\ Verb(LastLine(sess'[i])) \notin KnownVerbs)
                => NewOut(i) = <<R502>> /\ SessionFrame(i)
           /\ FramingError(LastLine(sess'[i]))
                => /\ Len(NewOut(i)) = 1 /\ NewOut(i)[1].code = "500"
                   /\ SessionFrame(i)
           /\ (IsHello(LastLine(sess'[i])) \/ IsCmd(LastLine(sess'[i]), V_RCPT))
                => sess'[i].env.id = sess[i].env.id
           /\ (sess[i].inp # <<>> /\ LastLine(sess[i]) = L_Data)
                => /\ LastLine(sess'[i]) = L_Noop => NewOut(i) = <<R250Ok>>
                   /\ LastLine(sess'[i]) = L_Vrfy => NewOut(i) = <<R502>>
                   /\ LastLine(sess'[i]) = L_Quit
                        => NewOut(i) = <<R221>> /\ sess'[i].pc = "closed"]_vars

\* DATA with an envelope but no recipient, then NOOP as a command
C18_Witness ==
    \E i \in DOMAIN sess :
        /\ sess[i].inp = <<L_MailAB, L_Data, L_Noop>>
        /\ sess[i].out = <<R220, R250Mail, R354, R250Ok>>
        /\ sess[i].env # NoEnv
        /\ sess[i].env.rcpts = <<>>

ExtensionTexts ==
    { <<"PIPELINING">>, <<"SIZE 10240000">>, <<"ENHANCEDSTATUSCODES">>,
      <<"8BITMIME">>, <<"DSN">> }

\* the texts of what session i wrote in this step
NewTexts(i) == {NewOut(i)[k].text : k \in 1..Len(NewOut(i))}

(* C19 - HELO and EHLO are accepted in every state, set the hello type to  *)
(* the verb received and the hello host to the argument; the extension     *)
(* list is in the reply to EHLO and not in the reply to HELO.              *)
C19_ExtensionsOnlyOnEhlo ==
    [][\A i \in DOMAIN sess :
         (Handled(i) /\ IsHello(LastLine(sess'[i])))
           => /\ IsVerbOf(sess'[i].helloType, LastLine(sess'[i]))
              /\ IsRightTrimOf(sess'[i].helloHost, AfterFirstSpace(LastLine(sess'[i])))
              /\ NewOut(i) # <<>>
              /\ \A k \in 1..Len(NewOut(i)) : NewOut(i)[k].code = "250"
              /\ sess'[i].pc = "loop"
              /\ IsVerbOf(V_EHLO, LastLine(sess'[i])) => ExtensionTexts \subseteq NewTexts(i)
              /\ IsVerbOf(V_HELO, LastLine(sess'[i])) => ExtensionTexts \cap NewTexts(i) = {}]_vars

(* C20 - whatever OnNewMail returns, the envelope is non-nil exactly when  *)
(* the latest of a MAIL answered 250 2.1.0 and a RSET was such a MAIL:     *)
(* a MAIL answered 250 leaves an envelope, RSET leaves none, and nothing   *)
(* else makes the envelope nil or non-nil.                                 *)
C20_EnvelopeIffMailAccepted ==
    [][\A i \in DOMAIN sess :
         Handled(i) =>
           IF IsValidMail(LastLine(sess'[i])) /\ NewOut(i) = <<R250Mail>>
           THEN sess'[i].env # NoEnv
           ELSE IF IsValidRset(LastLine(sess'[i]))
           THEN sess'[i].env = NoEnv
           ELSE (sess'[i].env = NoEnv) = (sess[i].env = NoEnv)]_vars

====
